---- MODULE Spec2Model ----
(***************************************************************************)
(* Forecast-vintage reconciliation of swemo-mcp: merge_realized applied to *)
(* vintages as get_policy_data parses them.                                *)
(***************************************************************************)
EXTENDS Integers, Sequences, FiniteSets, TLC

VARIABLES base, latest, result, pc,
          retries, attempt, at, responses, sleeps, outcome,
          req, catalogue, step, resp, answer, latest_round, calls, ret,
          latest_answer, failure,
          tasks,
          to_date, observations,
          payload, response,
          again

\* merge_realized and its two vintages
mergeVars == <<base, latest, result, pc>>

\* one call of riksbanken_request
callVars == <<retries, attempt, at, responses, sleeps, outcome>>

\* one invocation of _fetch_series
seriesVars == <<req, catalogue, step, resp, answer, latest_round, calls, ret,
                latest_answer, failure>>

\* calls of riksbanken_request running on one event loop
taskVars == <<tasks>>

\* one call of fetch_observations, on top of swea_request
sweaVars == <<to_date, observations>>

\* one call of get_policy_data
parseVars == <<payload, response>>

\* the vintage merged a second time
remergeVars == <<again>>

vars == <<mergeVars, callVars, seriesVars, taskVars, sweaVars, parseVars, remergeVars>>

(***************************************************************************)
(* Bounds of the model.                                                    *)
(***************************************************************************)
\* longest observation list of a fetched vintage
MaxObs == 2

\* largest `retries` argument of a call of riksbanken_request
MaxRetries == 5

\* longest list of identifiers the policy-round catalogue delivers
MaxRounds == 3

(***************************************************************************)
(* Python values.  An optional value is the empty tuple (None) or a        *)
(* one-element tuple; a str is the tuple of its code points.               *)
(***************************************************************************)
None == <<>>

Some(v) == <<v>>

\* "2024-03-31"
Dt0331 == <<50, 48, 50, 52, 45, 48, 51, 45, 51, 49>>

\* "2024-06-30"
Dt0630 == <<50, 48, 50, 52, 45, 48, 54, 45, 51, 48>>

\* "2024-09-30"
Dt0930 == <<50, 48, 50, 52, 45, 48, 57, 45, 51, 48>>

\* "2024-13-01": no calendar date, date.fromisoformat raises ValueError
DtBad == <<50, 48, 50, 52, 45, 49, 51, 45, 48, 49>>

DtStrings == {Dt0331, Dt0630, Dt0930, DtBad}

\* the cutoff strings a vintage's metadata may carry (None: the key is missing)
CutoffStrings == {Dt0331, Dt0630, None}

BaseValues == {1}

LatestValues == {1, 2}

IsDigit(c) == c \in 48..57

\* int(s[i..j]) for a run of digits
RECURSIVE ToInt(_, _, _)
ToInt(s, i, j) ==
    IF i > j THEN 0 ELSE ToInt(s, i, j - 1) * 10 + (s[j] - 48)

IsLeap(y) == (y % 4 = 0) /\ ((y % 100 # 0) \/ (y % 400 = 0))

DaysInMonth(y, m) ==
    IF m = 2 THEN (IF IsLeap(y) THEN 29 ELSE 28)
    ELSE IF m \in {4, 6, 9, 11} THEN 30 ELSE 31

\* date.fromisoformat(s) returns (does not raise ValueError)
IsIsoDate(s) ==
    /\ Len(s) = 10
    /\ s[5] = 45 /\ s[8] = 45
    /\ \A i \in {1, 2, 3, 4, 6, 7, 9, 10} : IsDigit(s[i])
    /\ ToInt(s, 1, 4) >= 1
    /\ ToInt(s, 6, 7) \in 1..12
    /\ ToInt(s, 9, 10) \in 1..DaysInMonth(ToInt(s, 1, 4), ToInt(s, 6, 7))

\* date.fromisoformat(s) as <<year, month, day>>
FromIsoformat(s) == <<ToInt(s, 1, 4), ToInt(s, 6, 7), ToInt(s, 9, 10)>>

\* a > b on datetime.date
DateGt(a, b) ==
    \/ a[1] > b[1]
    \/ a[1] = b[1] /\ a[2] > b[2]
    \/ a[1] = b[1] /\ a[2] = b[2] /\ a[3] > b[3]

\* a < b on str (code point order)
RECURSIVE StrLt(_, _)
StrLt(a, b) ==
    IF b = <<>> THEN FALSE
    ELSE IF a = <<>> THEN TRUE
    ELSE IF Head(a) # Head(b) THEN Head(a) < Head(b)
    ELSE StrLt(Tail(a), Tail(b))

(***************************************************************************)
(* get_policy_data: a raw vintage of the API becomes a ForecastVintage,    *)
(* each row classified against the vintage's own cutoff.                   *)
(***************************************************************************)
CutoffDt(cutoff_str) ==
    IF cutoff_str # None /\ IsIsoDate(cutoff_str)
    THEN FromIsoformat(cutoff_str) ELSE None

\* IsFc taking the cutoff date itself as a forecast date
IsFc_Inclusive(cutoff_dt, dt_str) ==
    /\ cutoff_dt # None
    /\ IsIsoDate(dt_str)
    /\ ~DateGt(cutoff_dt, FromIsoformat(dt_str))

\* `is_fc`: False unless cutoff_dt and dt_str are set, dt_str parses and
\* `date.fromisoformat(dt_str) > cutoff_dt`
IsFc(cutoff_dt, dt_str) ==
    /\ cutoff_dt # None
    /\ IsIsoDate(dt_str)
    /\ DateGt(FromIsoformat(dt_str), cutoff_dt)

Annotate(cutoff_dt, obs) ==
    [dt |-> obs.dt,
     value |-> obs.value,
     forecast |-> IF IsFc(cutoff_dt, obs.dt) THEN Some(obs.value) ELSE None,
     observation |-> IF IsFc(cutoff_dt, obs.dt) THEN None ELSE Some(obs.value)]

ParseVintage(round, cutoff_str, rows) ==
    [metadata |-> [policy_round |-> round,
                   forecast_cutoff_date |-> CutoffDt(cutoff_str)],
     observations |-> [i \in 1..Len(rows) |-> Annotate(CutoffDt(cutoff_str), rows[i])]]

RawRows(values) == [dt : DtStrings, value : values]

SeqsUpTo(S, n) == UNION {[1..k -> S] : k \in 0..n}

(***************************************************************************)
(* merge_realized                                                          *)
(***************************************************************************)
\* ObsMapFrom without the test `o.observation is not None`
RECURSIVE ObsMapFrom_AllRows(_, _, _)
ObsMapFrom_AllRows(rows, cut, acc) ==
    IF rows = <<>> THEN [err |-> "none", map |-> acc]
    ELSE LET o == Head(rows) IN
         IF ~IsIsoDate(o.dt) THEN [err |-> "ValueError", map |-> acc]
         ELSE IF cut = None THEN [err |-> "TypeError", map |-> acc]
         ELSE IF DateGt(FromIsoformat(o.dt), cut)
              THEN ObsMapFrom_AllRows(Tail(rows), cut, (o.dt :> o.value) @@ acc)
              ELSE ObsMapFrom_AllRows(Tail(rows), cut, acc)

\* the dict comprehension of obs_map, rows taken in order; a raising row
\* ends the comprehension with its exception
RECURSIVE ObsMapFrom(_, _, _)
ObsMapFrom(rows, cut, acc) ==
    IF rows = <<>> THEN [err |-> "none", map |-> acc]
    ELSE LET o == Head(rows) IN
         IF o.observation = None THEN ObsMapFrom(Tail(rows), cut, acc)
         ELSE IF ~IsIsoDate(o.dt) THEN [err |-> "ValueError", map |-> acc]
         ELSE IF cut = None THEN [err |-> "TypeError", map |-> acc]
         ELSE IF DateGt(FromIsoformat(o.dt), cut)
              THEN ObsMapFrom(Tail(rows), cut, (o.dt :> o.value) @@ acc)
              ELSE ObsMapFrom(Tail(rows), cut, acc)

ObsMap(b, l) == ObsMapFrom(l.observations, b.metadata.forecast_cutoff_date, <<>>)

\* MapGet that never finds a key
MapGet_Never(m, dt) == None

\* obs_map.get(dt)
MapGet(m, dt) == IF dt \in DOMAIN m THEN Some(m[dt]) ELSE None

\* EnrichRow writing the realised value over the forecast
EnrichRow_ForecastOverwritten(o, obs_map) ==
    [dt |-> o.dt,
     value |-> o.value,
     forecast |-> IF o.forecast # None /\ o.dt \in DOMAIN obs_map
                  THEN Some(obs_map[o.dt]) ELSE o.forecast,
     observation |-> IF o.forecast # None THEN MapGet(obs_map, o.dt) ELSE Some(o.value)]

\* EnrichRow looking every row up in obs_map, history included
EnrichRow_AlwaysLookup(o, obs_map) ==
    [dt |-> o.dt,
     value |-> o.value,
     forecast |-> o.forecast,
     observation |-> MapGet(obs_map, o.dt)]

EnrichRow(o, obs_map) ==
    [dt |-> o.dt,
     value |-> o.value,
     forecast |-> o.forecast,
     observation |-> IF o.forecast # None THEN MapGet(obs_map, o.dt) ELSE Some(o.value)]

\* Enriched keeping the forecast rows of base only
Enriched_DropsHistory(b, obs_map) ==
    LET IsForecastRow(o) == o.forecast # None
        kept == SelectSeq(b.observations, IsForecastRow)
    IN [i \in 1..Len(kept) |-> EnrichRow(kept[i], obs_map)]

Enriched(b, obs_map) ==
    [i \in 1..Len(b.observations) |-> EnrichRow(b.observations[i], obs_map)]

BaseDates(b) == {b.observations[i].dt : i \in 1..Len(b.observations)}

\* InTail without the test `o.observation is not None`
InTail_NoObsCheck(o, base_dates) == o.dt \notin base_dates

\* InTail without the test `o.dt not in base_dates`
InTail_NoBaseDates(o, base_dates) == o.observation # None

InTail(o, base_dates) == (o.observation # None) /\ (o.dt \notin base_dates)

\* TailRow marking the appended row as a forecast
TailRow_KeepsForecast(o) ==
    [dt |-> o.dt, value |-> o.value, forecast |-> Some(o.value),
     observation |-> Some(o.value)]

TailRow(o) ==
    [dt |-> o.dt, value |-> o.value, forecast |-> None, observation |-> Some(o.value)]

RECURSIVE TailFrom(_, _)
TailFrom(rows, base_dates) ==
    IF rows = <<>> THEN <<>>
    ELSE IF InTail(Head(rows), base_dates)
         THEN <<TailRow(Head(rows))>> \o TailFrom(Tail(rows), base_dates)
         ELSE TailFrom(Tail(rows), base_dates)

\* sorted(..., key=lambda r: r.dt): stable, by str order
RECURSIVE InsertByDt(_, _)
InsertByDt(sorted, r) ==
    IF sorted = <<>> THEN <<r>>
    ELSE IF StrLt(r.dt, Head(sorted).dt) THEN <<r>> \o sorted
    ELSE <<Head(sorted)>> \o InsertByDt(Tail(sorted), r)

RECURSIVE SortedByDt(_)
SortedByDt(rows) ==
    IF rows = <<>> THEN <<>>
    ELSE InsertByDt(SortedByDt(SubSeq(rows, 1, Len(rows) - 1)), rows[Len(rows)])

\* Combined without the sort
Combined_Unsorted(b, l, obs_map) ==
    Enriched(b, obs_map) \o TailFrom(l.observations, BaseDates(b))

Combined(b, l, obs_map) ==
    SortedByDt(Enriched(b, obs_map) \o TailFrom(l.observations, BaseDates(b)))

\* merge_realized copying latest instead of base
merge_realized_LatestMetadata(b, l) ==
    LET m == ObsMap(b, l) IN
    IF m.err # "none" THEN [status |-> m.err, vintage |-> None]
    ELSE [status |-> "ok",
          vintage |-> Some([metadata |-> l.metadata,
                            observations |-> Combined(b, l, m.map)])]

\* the call's outcome: the returned vintage, or the exception it raises
merge_realized(b, l) ==
    LET m == ObsMap(b, l) IN
    IF m.err # "none" THEN [status |-> m.err, vintage |-> None]
    ELSE [status |-> "ok",
          vintage |-> Some([metadata |-> b.metadata,
                            observations |-> Combined(b, l, m.map)])]

(***************************************************************************)
(* merge_realized of riksbank_mcp, the variant _fetch_series imports: its  *)
(* rows carry the flag is_forecast and a `realized` companion value, and   *)
(* no cutoff takes part.                                                   *)
(***************************************************************************)
\* rows of a flagged vintage before any merge
FlaggedRows(values) ==
    [dt : {Dt0331, Dt0630, Dt0930}, value : values, is_forecast : BOOLEAN,
     realized : {None}]

FlaggedVintage(round, rows) ==
    [metadata |-> [policy_round |-> round], observations |-> rows]

\* `{o.dt: o.value for o in latest.observations if not o.is_forecast}`: a
\* later row of the same date wins
RECURSIVE RealizedMapFrom(_, _)
RealizedMapFrom(rows, acc) ==
    IF rows = <<>> THEN acc
    ELSE LET o == Head(rows) IN
         IF ~o.is_forecast
         THEN RealizedMapFrom(Tail(rows), (o.dt :> o.value) @@ acc)
         ELSE RealizedMapFrom(Tail(rows), acc)

\* `realized_val = realized_map.get(obs.dt) if obs.is_forecast else obs.value`
EnrichFlagged(obs, realized_map) ==
    [dt |-> obs.dt,
     value |-> obs.value,
     is_forecast |-> obs.is_forecast,
     realized |-> IF obs.is_forecast THEN MapGet(realized_map, obs.dt)
                  ELSE Some(obs.value)]

EnrichedBase(b, realized_map) ==
    [i \in 1..Len(b.observations) |-> EnrichFlagged(b.observations[i], realized_map)]

\* the rows of latest that are no forecasts and whose date base lacks
RECURSIVE ExtraRealized(_, _)
ExtraRealized(rows, base_dates) ==
    IF rows = <<>> THEN <<>>
    ELSE LET o == Head(rows) IN
         IF (~o.is_forecast) /\ (o.dt \notin base_dates)
         THEN <<[dt |-> o.dt, value |-> o.value, is_forecast |-> FALSE,
                 realized |-> Some(o.value)]>>
              \o ExtraRealized(Tail(rows), base_dates)
         ELSE ExtraRealized(Tail(rows), base_dates)

\* merge_realized of riksbank_mcp.utils.realized_merge
flagged_merge_realized(b, l) ==
    LET realized_map == RealizedMapFrom(l.observations, <<>>) IN
    [status |-> "ok",
     vintage |-> Some([metadata |-> b.metadata,
                       observations |->
                          SortedByDt(EnrichedBase(b, realized_map)
                                     \o ExtraRealized(l.observations, BaseDates(b)))])]

(***************************************************************************)
(* riksbanken_request: the retry loop of the fetch client.                 *)
(***************************************************************************)
\* what the server may answer: a status code and whether a body came with it
Responses ==
    {[status_code |-> 200, content |-> TRUE],
     [status_code |-> 200, content |-> FALSE],
     [status_code |-> 404, content |-> TRUE],
     [status_code |-> 429, content |-> FALSE],
     [status_code |-> 500, content |-> TRUE],
     [status_code |-> 503, content |-> FALSE]}

\* response.raise_for_status() raises HTTPStatusError
IsErrorStatus(status) == status \notin 200..299

\* IsNotFound without the 404 branch
IsNotFound_Never(status) == FALSE

\* `status == 404`
IsNotFound(status) == status = 404

\* ShouldRetry taking every error status but 404 as transient
ShouldRetry_AnyError(status, k, n) == k < n - 1

\* ShouldRetry with the bound `attempt < retries`
ShouldRetry_LastToo(status, k, n) == status = 429 /\ k < n

\* `status == 429 and attempt < retries - 1`
ShouldRetry(status, k, n) == status = 429 /\ k < n - 1

\* Wait doubling from 2 seconds
Wait_FromTwo(k) == 2 ^ (k + 1)

\* `wait = 2**attempt`
Wait(k) == 2 ^ k

NoOutcome == [kind |-> "pending", status_code |-> 0]

CallIdle ==
    /\ retries = 0
    /\ attempt = 0
    /\ at = "idle"
    /\ responses = <<>>
    /\ sleeps = <<>>
    /\ outcome = NoOutcome

\* the call is entered: `for attempt in range(retries)` starts at 0
CallInit ==
    /\ retries \in 0..MaxRetries
    /\ attempt = 0
    /\ at = "loop"
    /\ responses = <<>>
    /\ sleeps = <<>>
    /\ outcome = NoOutcome

\* the loop has an attempt left: `await client.get(full_url)` is issued
Send ==
    /\ at = "loop"
    /\ attempt < retries
    /\ at' = "awaiting"
    /\ UNCHANGED <<retries, attempt, responses, sleeps, outcome>>
    /\ UNCHANGED <<mergeVars, seriesVars, taskVars, sweaVars, parseVars, remergeVars>>

\* range(retries) is used up: `raise RuntimeError("Max retries exceeded ...")`
Exhausted ==
    /\ at = "loop"
    /\ attempt >= retries
    /\ at' = "raised"
    /\ outcome' = [kind |-> "RuntimeError", status_code |-> 0]
    /\ UNCHANGED <<retries, attempt, responses, sleeps>>
    /\ UNCHANGED <<mergeVars, seriesVars, taskVars, sweaVars, parseVars, remergeVars>>

\* the response r arrives and is classified
Respond(r) ==
    /\ at = "awaiting"
    /\ responses' = Append(responses, r)
    /\ IF ~IsErrorStatus(r.status_code)
       THEN /\ at' = "returned"
            /\ outcome' = [kind |-> IF r.content THEN "json" ELSE "empty",
                           status_code |-> r.status_code]
            /\ UNCHANGED sleeps
       ELSE IF IsNotFound(r.status_code)
       THEN /\ at' = "returned"
            /\ outcome' = [kind |-> "empty", status_code |-> r.status_code]
            /\ UNCHANGED sleeps
       ELSE IF ShouldRetry(r.status_code, attempt, retries)
       THEN /\ at' = "sleeping"
            /\ sleeps' = Append(sleeps, Wait(attempt))
            /\ UNCHANGED outcome
       ELSE /\ at' = "raised"
            /\ outcome' = [kind |-> "HTTPStatusError", status_code |-> r.status_code]
            /\ UNCHANGED sleeps
    /\ UNCHANGED <<retries, attempt>>
    /\ UNCHANGED <<mergeVars, seriesVars, taskVars, sweaVars, parseVars, remergeVars>>

\* asyncio.sleep(wait) is over: `continue` with the next attempt
Wake ==
    /\ at = "sleeping"
    /\ attempt' = attempt + 1
    /\ at' = "loop"
    /\ UNCHANGED <<retries, responses, sleeps, outcome>>
    /\ UNCHANGED <<mergeVars, seriesVars, taskVars, sweaVars, parseVars, remergeVars>>

(***************************************************************************)
(* list_policy_rounds and _fetch_series.                                   *)
(***************************************************************************)
\* "2024:1"
Id2024_1 == <<50, 48, 50, 52, 58, 49>>

\* "2024:2"
Id2024_2 == <<50, 48, 50, 52, 58, 50>>

\* "2023:4"
Id2023_4 == <<50, 48, 50, 51, 58, 52>>

\* "2024:10"
Id2024_10 == <<50, 48, 50, 52, 58, 49, 48>>

\* "2024:x": int("x") raises ValueError
IdBad == <<50, 48, 50, 52, 58, 120>>

\* "latest"
IdLatest == <<108, 97, 116, 101, 115, 116>>

\* the identifiers the catalogue endpoint may list
CatalogueIds == {Id2024_1, Id2024_2, Id2023_4, Id2024_10, IdBad}

\* ForecastRequest: policy_round (None: all vintages) and include_realized
Requests ==
    [policy_round : {None, Id2024_1, Id2024_2, IdLatest}, include_realized : BOOLEAN]

\* `year_str, iter_str = ident.split(":")` and both int() calls succeed
IsRoundId(ident) ==
    LET colons == {i \in 1..Len(ident) : ident[i] = 58} IN
    /\ Cardinality(colons) = 1
    /\ \A c \in colons :
          /\ 1 < c /\ c < Len(ident)
          /\ \A i \in (1..Len(ident)) \ {c} : IsDigit(ident[i])

\* PolicyRound(id=ident, year=int(year_str), iteration=int(iter_str))
PolicyRound(ident) ==
    LET c == CHOOSE i \in 1..Len(ident) : ident[i] = 58 IN
    [id |-> ident, year |-> ToInt(ident, 1, c - 1),
     iteration |-> ToInt(ident, c + 1, Len(ident))]

\* the loop of list_policy_rounds: malformed identifiers are skipped
RECURSIVE RoundsOf(_)
RoundsOf(identifiers) ==
    IF identifiers = <<>> THEN <<>>
    ELSE IF IsRoundId(Head(identifiers))
         THEN <<PolicyRound(Head(identifiers))>> \o RoundsOf(Tail(identifiers))
         ELSE RoundsOf(Tail(identifiers))

\* KeyGt comparing the identifiers as text
KeyGt_ByIdText(a, b) == StrLt(b.id, a.id)

\* (a.year, a.iteration) > (b.year, b.iteration)
KeyGt(a, b) ==
    \/ a.year > b.year
    \/ a.year = b.year /\ a.iteration > b.iteration

\* max(rounds, key=lambda r: (r.year, r.iteration)): the first maximal round
RECURSIVE MaxFrom(_, _)
MaxFrom(best, rest) ==
    IF rest = <<>> THEN best
    ELSE IF KeyGt(Head(rest), best) THEN MaxFrom(Head(rest), Tail(rest))
    ELSE MaxFrom(best, Tail(rest))

MaxRound(rounds) == MaxFrom(Head(rounds), Tail(rounds))

\* WantsRealized that enriches every request
WantsRealized_Always(r) == TRUE

\* `if req.include_realized`
WantsRealized(r) == r.include_realized

\* NeedsLatest fetching the latest round whatever round was requested
NeedsLatest_Always(latest_id, r) == TRUE

\* `if latest_round != req.policy_round`
NeedsLatest(latest_id, r) == latest_id # r.policy_round

\* `if base.vintages and latest.vintages`
BothHaveVintages(b, l) == b # <<>> /\ l # <<>>

\* vintages a fetch may deliver
VintageA ==
    ParseVintage(Id2024_1, Dt0331,
                 <<[dt |-> Dt0331, value |-> 1], [dt |-> Dt0630, value |-> 1]>>)

VintageB ==
    ParseVintage(Id2023_4, Dt0331, <<[dt |-> Dt0331, value |-> 1]>>)

VintageL ==
    ParseVintage(Id2024_2, Dt0630,
                 <<[dt |-> Dt0630, value |-> 2], [dt |-> Dt0930, value |-> 2]>>)

VintageMalformed ==
    ParseVintage(Id2024_2, Dt0630, <<[dt |-> DtBad, value |-> 2]>>)

\* what _fetcher may deliver for the requested round, and for the latest one
BaseAnswers == {<<>>, <<VintageA>>, <<VintageA, VintageB>>}

LatestAnswers == {<<>>, <<VintageL>>, <<VintageMalformed>>}

\* exceptions a fetch may raise
FetchErrors == {"HTTPStatusError", "RuntimeError"}

NoReturn == [kind |-> "pending", vintages |-> <<>>, error |-> "none"]

Returns(vintages) == [kind |-> "response", vintages |-> vintages, error |-> "none"]

\* Raises swallowing the exception: the base response fetched so far is returned
Raises_ReturnsBase(e) == [kind |-> "response", vintages |-> resp, error |-> "none"]

\* the exception e leaves _fetch_series: no handler stands between a fetch
\* and the caller
Raises(e) == [kind |-> "raised", vintages |-> <<>>, error |-> e]

SeriesIdle ==
    /\ req = [policy_round |-> None, include_realized |-> FALSE]
    /\ catalogue = <<>>
    /\ step = "idle"
    /\ resp = <<>>
    /\ answer = <<>>
    /\ latest_round = None
    /\ calls = <<>>
    /\ ret = NoReturn
    /\ latest_answer = None
    /\ failure = None

\* _fetch_series is entered with a request; the catalogue is what the
\* policy_rounds endpoint will list
SeriesInit ==
    /\ req \in Requests
    /\ catalogue \in SeqsUpTo(CatalogueIds, MaxRounds)
    /\ step = "start"
    /\ resp = <<>>
    /\ answer = <<>>
    /\ latest_round = None
    /\ calls = <<>>
    /\ ret = NoReturn
    /\ latest_answer = None
    /\ failure = None

\* `base = await _fetcher(series_id, req.policy_round)` raises
FetchBaseFails ==
    /\ step = "start"
    /\ \E e \in FetchErrors : failure' = Some(e) /\ ret' = Raises(e)
    /\ calls' = Append(calls, [call |-> "fetch", policy_round |-> req.policy_round])
    /\ step' = "raised"
    /\ UNCHANGED <<req, catalogue, resp, answer, latest_round, latest_answer>>
    /\ UNCHANGED <<mergeVars, callVars, taskVars, sweaVars, parseVars, remergeVars>>

\* `base = await _fetcher(series_id, req.policy_round)` returns; without
\* include_realized the response is returned as it is
FetchBase ==
    /\ step = "start"
    /\ \E v \in BaseAnswers :
          /\ answer' = v
          /\ resp' = v
          /\ IF WantsRealized(req)
             THEN step' = "base_fetched" /\ UNCHANGED ret
             ELSE step' = "returned" /\ ret' = Returns(v)
    /\ calls' = Append(calls, [call |-> "fetch", policy_round |-> req.policy_round])
    /\ UNCHANGED <<req, catalogue, latest_round, latest_answer, failure>>
    /\ UNCHANGED <<mergeVars, callVars, taskVars, sweaVars, parseVars, remergeVars>>

\* `rounds = await list_policy_rounds()` raises
FetchRoundsFails ==
    /\ step = "base_fetched"
    /\ \E e \in FetchErrors : failure' = Some(e) /\ ret' = Raises(e)
    /\ calls' = Append(calls, [call |-> "policy_rounds", policy_round |-> None])
    /\ step' = "raised"
    /\ UNCHANGED <<req, catalogue, resp, answer, latest_round, latest_answer>>
    /\ UNCHANGED <<mergeVars, callVars, taskVars, sweaVars, parseVars, remergeVars>>

\* FetchRounds not waiting for the base fetch: the catalogue is read first
FetchRounds_Eager ==
    /\ step \in {"start", "base_fetched"}
    /\ WantsRealized(req)
    /\ calls' = Append(calls, [call |-> "policy_rounds", policy_round |-> None])
    /\ IF RoundsOf(catalogue) = <<>>
       THEN /\ step' = "returned"
            /\ ret' = Returns(resp)
            /\ UNCHANGED latest_round
       ELSE /\ latest_round' = MaxRound(RoundsOf(catalogue)).id
            /\ IF NeedsLatest(latest_round', req)
               THEN step' = "rounds_fetched" /\ UNCHANGED ret
               ELSE step' = "returned" /\ ret' = Returns(resp)
    /\ UNCHANGED <<req, catalogue, resp, answer, latest_answer, failure>>
    /\ UNCHANGED <<mergeVars, callVars, taskVars, sweaVars, parseVars, remergeVars>>

\* `rounds = await list_policy_rounds()` returns: the latest round is
\* resolved; base is returned when there is none or it is the requested one
FetchRounds ==
    /\ step = "base_fetched"
    /\ calls' = Append(calls, [call |-> "policy_rounds", policy_round |-> None])
    /\ IF RoundsOf(catalogue) = <<>>
       THEN /\ step' = "returned"
            /\ ret' = Returns(resp)
            /\ UNCHANGED latest_round
       ELSE /\ latest_round' = MaxRound(RoundsOf(catalogue)).id
            /\ IF NeedsLatest(latest_round', req)
               THEN step' = "rounds_fetched" /\ UNCHANGED ret
               ELSE step' = "returned" /\ ret' = Returns(resp)
    /\ UNCHANGED <<req, catalogue, resp, answer, latest_answer, failure>>
    /\ UNCHANGED <<mergeVars, callVars, taskVars, sweaVars, parseVars, remergeVars>>

\* `latest = await _fetcher(series_id, latest_round)` raises
FetchLatestFails ==
    /\ step = "rounds_fetched"
    /\ \E e \in FetchErrors : failure' = Some(e) /\ ret' = Raises(e)
    /\ calls' = Append(calls, [call |-> "fetch", policy_round |-> latest_round])
    /\ step' = "raised"
    /\ UNCHANGED <<req, catalogue, resp, answer, latest_round, latest_answer>>
    /\ UNCHANGED <<mergeVars, callVars, taskVars, sweaVars, parseVars, remergeVars>>

\* FetchLatest indexing vintages[0] of both responses without the test
\* `if base.vintages and latest.vintages`: an empty list raises IndexError
FetchLatest_Unguarded ==
    /\ step = "rounds_fetched"
    /\ \E l \in LatestAnswers :
          /\ latest_answer' = Some(l)
          /\ IF resp # <<>> /\ l # <<>>
             THEN LET merged == merge_realized(resp[1], l[1]) IN
                  /\ calls' = calls \o
                        <<[call |-> "fetch", policy_round |-> latest_round],
                          [call |-> "merge_realized", policy_round |-> None]>>
                  /\ IF merged.status = "ok"
                     THEN /\ resp' = [resp EXCEPT ![1] = merged.vintage[1]]
                          /\ step' = "returned"
                          /\ ret' = Returns(resp')
                     ELSE /\ step' = "raised"
                          /\ ret' = Raises(merged.status)
                          /\ UNCHANGED resp
             ELSE /\ calls' = Append(calls, [call |-> "fetch", policy_round |-> latest_round])
                  /\ step' = "raised"
                  /\ ret' = Raises("IndexError")
                  /\ UNCHANGED resp
    /\ UNCHANGED <<req, catalogue, answer, latest_round, failure>>
    /\ UNCHANGED <<mergeVars, callVars, taskVars, sweaVars, parseVars, remergeVars>>

\* `latest = await _fetcher(series_id, latest_round)` returns; when both
\* responses hold a vintage the first ones are merged into base.vintages[0]
FetchLatest ==
    /\ step = "rounds_fetched"
    /\ \E l \in LatestAnswers :
          /\ latest_answer' = Some(l)
          /\ IF BothHaveVintages(resp, l)
             THEN LET merged == merge_realized(resp[1], l[1]) IN
                  /\ calls' = calls \o
                        <<[call |-> "fetch", policy_round |-> latest_round],
                          [call |-> "merge_realized", policy_round |-> None]>>
                  /\ IF merged.status = "ok"
                     THEN /\ resp' = [resp EXCEPT ![1] = merged.vintage[1]]
                          /\ step' = "returned"
                          /\ ret' = Returns(resp')
                     ELSE /\ step' = "raised"
                          /\ ret' = Raises(merged.status)
                          /\ UNCHANGED resp
             ELSE /\ calls' = Append(calls, [call |-> "fetch", policy_round |-> latest_round])
                  /\ step' = "returned"
                  /\ ret' = Returns(resp)
                  /\ UNCHANGED resp
    /\ UNCHANGED <<req, catalogue, answer, latest_round, failure>>
    /\ UNCHANGED <<mergeVars, callVars, taskVars, sweaVars, parseVars, remergeVars>>

(***************************************************************************)
(* Calls of riksbanken_request in flight on one event loop.  Every call    *)
(* holds its own `attempt`, its own AsyncClient and its own responses; a   *)
(* call is the record of the local state of its coroutine.                 *)
(***************************************************************************)
\* the coroutines in flight
Tasks == {"a", "b"}

\* the coroutine of a call entered with retries = n
TaskStart(n) ==
    [retries |-> n, attempt |-> 0, at |-> "loop", responses |-> <<>>,
     sleeps |-> <<>>, outcome |-> NoOutcome]

\* Runnable with a sleep that blocks the thread of the event loop
Runnable_Blocking(t) == \A u \in Tasks \ {t} : tasks[u].at # "sleeping"

\* `await asyncio.sleep(wait)` and `await client.get(...)` suspend the calling
\* coroutine only: the event loop runs any other coroutine that is ready
Runnable(t) == TRUE

\* `await client.get(full_url)` of call t
TaskSend(t) ==
    /\ Runnable(t)
    /\ tasks[t].at = "loop"
    /\ tasks[t].attempt < tasks[t].retries
    /\ tasks' = [tasks EXCEPT ![t].at = "awaiting"]
    /\ UNCHANGED <<mergeVars, callVars, seriesVars, sweaVars, parseVars, remergeVars>>

\* range(retries) of call t is used up
TaskExhausted(t) ==
    /\ Runnable(t)
    /\ tasks[t].at = "loop"
    /\ tasks[t].attempt >= tasks[t].retries
    /\ tasks' = [tasks EXCEPT ![t].at = "raised",
                              ![t].outcome = [kind |-> "RuntimeError", status_code |-> 0]]
    /\ UNCHANGED <<mergeVars, callVars, seriesVars, sweaVars, parseVars, remergeVars>>

\* the response r to the request of call t arrives and is classified
TaskRespond(t, r) ==
    /\ Runnable(t)
    /\ tasks[t].at = "awaiting"
    /\ LET c == [tasks[t] EXCEPT !.responses = Append(@, r)] IN
       tasks' = [tasks EXCEPT ![t] =
          IF ~IsErrorStatus(r.status_code)
          THEN [c EXCEPT !.at = "returned",
                         !.outcome = [kind |-> IF r.content THEN "json" ELSE "empty",
                                      status_code |-> r.status_code]]
          ELSE IF IsNotFound(r.status_code)
          THEN [c EXCEPT !.at = "returned",
                         !.outcome = [kind |-> "empty", status_code |-> r.status_code]]
          ELSE IF ShouldRetry(r.status_code, c.attempt, c.retries)
          THEN [c EXCEPT !.at = "sleeping",
                         !.sleeps = Append(@, Wait(c.attempt))]
          ELSE [c EXCEPT !.at = "raised",
                         !.outcome = [kind |-> "HTTPStatusError",
                                      status_code |-> r.status_code]]]
    /\ UNCHANGED <<mergeVars, callVars, seriesVars, sweaVars, parseVars, remergeVars>>

\* asyncio.sleep(wait) of call t is over
TaskWake(t) ==
    /\ Runnable(t)
    /\ tasks[t].at = "sleeping"
    /\ tasks' = [tasks EXCEPT ![t].attempt = @ + 1, ![t].at = "loop"]
    /\ UNCHANGED <<mergeVars, callVars, seriesVars, sweaVars, parseVars, remergeVars>>

\* both calls are entered, each with its own retries
TasksInit == tasks \in [Tasks -> {TaskStart(n) : n \in 0..MaxRetries}]

(***************************************************************************)
(* fetch_observations on top of swea_request, the fetch client of the SWEA *)
(* API: the retry loop of riksbanken_request without a branch for 404.     *)
(***************************************************************************)
\* `retries: int = 7`, the value every caller of swea_request leaves in place
SweaRetries == 7

\* answers of the SWEA endpoint: a JSON list of `items` observations, the
\* JSON list `[]`, an empty body, and the error statuses
SweaResponses ==
    {[status_code |-> 200, content |-> TRUE, items |-> 2],
     [status_code |-> 200, content |-> TRUE, items |-> 1],
     [status_code |-> 200, content |-> TRUE, items |-> 0],
     [status_code |-> 200, content |-> FALSE, items |-> 0],
     [status_code |-> 404, content |-> TRUE, items |-> 0],
     [status_code |-> 429, content |-> FALSE, items |-> 0],
     [status_code |-> 500, content |-> TRUE, items |-> 0]}

\* fetch_observations(series_id, from_date, to_date) is entered and calls
\* swea_request(endpoint); to_date only extends the endpoint
SweaInit ==
    /\ to_date \in {None, Some(Dt0630)}
    /\ observations = [kind |-> "pending", items |-> 0, status_code |-> 0]
    /\ retries = SweaRetries
    /\ attempt = 0
    /\ at = "loop"
    /\ responses = <<>>
    /\ sleeps = <<>>
    /\ outcome = NoOutcome

\* `response = await client.get(full_url)` is issued; range(7) is never used
\* up on this path, the seventh attempt returning or raising
SweaSend ==
    /\ at = "loop"
    /\ attempt < retries
    /\ at' = "awaiting"
    /\ UNCHANGED <<retries, attempt, responses, sleeps, outcome>>
    /\ UNCHANGED sweaVars
    /\ UNCHANGED <<mergeVars, seriesVars, taskVars, parseVars, remergeVars>>

\* the response r arrives: swea_request returns the parsed body or {}, sleeps
\* on a 429 with attempts left, and raises on every other error status;
\* fetch_observations turns what is returned into the list of Observation
SweaRespond(r) ==
    /\ at = "awaiting"
    /\ responses' = Append(responses, r)
    /\ IF ~IsErrorStatus(r.status_code)
       THEN /\ at' = "returned"
            /\ outcome' = [kind |-> IF r.content THEN "json" ELSE "empty",
                           status_code |-> r.status_code]
            /\ observations' = [kind |-> "list",
                                items |-> IF r.content THEN r.items ELSE 0,
                                status_code |-> r.status_code]
            /\ UNCHANGED sleeps
       ELSE IF ShouldRetry(r.status_code, attempt, retries)
       THEN /\ at' = "sleeping"
            /\ sleeps' = Append(sleeps, Wait(attempt))
            /\ UNCHANGED <<outcome, observations>>
       ELSE /\ at' = "raised"
            /\ outcome' = [kind |-> "HTTPStatusError", status_code |-> r.status_code]
            /\ observations' = [kind |-> "HTTPStatusError", items |-> 0,
                                status_code |-> r.status_code]
            /\ UNCHANGED sleeps
    /\ UNCHANGED <<retries, attempt, to_date>>
    /\ UNCHANGED <<mergeVars, seriesVars, taskVars, parseVars, remergeVars>>

\* asyncio.sleep(wait_seconds) is over: `continue`
SweaWake ==
    /\ at = "sleeping"
    /\ attempt' = attempt + 1
    /\ at' = "loop"
    /\ UNCHANGED <<retries, responses, sleeps, outcome>>
    /\ UNCHANGED sweaVars
    /\ UNCHANGED <<mergeVars, seriesVars, taskVars, parseVars, remergeVars>>

(***************************************************************************)
(* get_policy_data: the payload of the forecasts endpoint becomes the      *)
(* response with its parsed vintages.                                      *)
(***************************************************************************)
\* values of metadata.forecast_cutoff_date on the wire: dates, a missing key
\* and a string that is no date
RawCutoffs == CutoffStrings \cup {DtBad}

\* raw vintages of the payload
RawVintages ==
    [round : {Id2024_1}, cutoff : RawCutoffs,
     rows : SeqsUpTo(RawRows(LatestValues), MaxObs)]

\* riksbanken_request has returned: payload holds the raw vintages of the
\* first item of `data`, none for an empty payload
ParseInit ==
    /\ payload \in {Some(vs) : vs \in SeqsUpTo(RawVintages, 1)}
    /\ response = None

\* the vintages are annotated and validated; `vintages=[]` for an empty payload
GetPolicyData ==
    /\ payload # None
    /\ response = None
    /\ response' = Some([vintages |->
          [i \in 1..Len(payload[1]) |->
              ParseVintage(payload[1][i].round, payload[1][i].cutoff,
                           payload[1][i].rows)]])
    /\ UNCHANGED payload
    /\ UNCHANGED <<mergeVars, callVars, seriesVars, taskVars, sweaVars, remergeVars>>

(***************************************************************************)
(* The parts of the state a state machine below does not use stay idle.    *)
(***************************************************************************)
\* no call of riksbanken_request runs on the event loop
TasksIdle == tasks = <<>>

\* fetch_observations is not called
SweaIdle ==
    /\ to_date = None
    /\ observations = [kind |-> "pending", items |-> 0, status_code |-> 0]

\* get_policy_data is not called
ParseIdle ==
    /\ payload = None
    /\ response = None

\* no vintage is merged a second time
RemergeIdle == again = [status |-> "pending", vintage |-> None]

(***************************************************************************)
(* The state machine: two fetched vintages, then the merge.                *)
(***************************************************************************)
BaseRound == "2024:1"

LatestRound == "2024:2"

Init ==
    /\ \E c \in CutoffStrings, rows \in SeqsUpTo(RawRows(BaseValues), MaxObs) :
          base = ParseVintage(BaseRound, c, rows)
    /\ \E c \in CutoffStrings, rows \in SeqsUpTo(RawRows(LatestValues), MaxObs) :
          latest = ParseVintage(LatestRound, c, rows)
    /\ result = [status |-> "pending", vintage |-> None]
    /\ pc = "fetched"
    /\ CallIdle
    /\ SeriesIdle
    /\ TasksIdle /\ SweaIdle /\ ParseIdle /\ RemergeIdle

\* Merge storing the combined list into base itself
Merge_InPlace ==
    /\ pc = "fetched"
    /\ result' = merge_realized(base, latest)
    /\ pc' = "merged"
    /\ base' = IF result'.status = "ok"
               THEN [base EXCEPT !.observations = result'.vintage[1].observations]
               ELSE base
    /\ UNCHANGED latest
    /\ UNCHANGED <<callVars, seriesVars, taskVars, sweaVars, parseVars, remergeVars>>

Merge ==
    /\ pc = "fetched"
    /\ result' = merge_realized(base, latest)
    /\ pc' = "merged"
    /\ UNCHANGED <<base, latest>>
    /\ UNCHANGED <<callVars, seriesVars, taskVars, sweaVars, parseVars, remergeVars>>

\* merge_realized(v, v) for v = base; taken where the second fetch delivered
\* the rows and cutoff of the first, so that each v is merged with itself once
SelfMerge ==
    /\ pc = "fetched"
    /\ latest.observations = base.observations
    /\ latest.metadata.forecast_cutoff_date = base.metadata.forecast_cutoff_date
    /\ result' = merge_realized(base, base)
    /\ pc' = "selfmerged"
    /\ UNCHANGED <<base, latest>>
    /\ UNCHANGED <<callVars, seriesVars, taskVars, sweaVars, parseVars, remergeVars>>

Next == Merge \/ SelfMerge

Spec == Init /\ [][Next]_vars

\* no merge is in progress
MergeIdle ==
    /\ base = ParseVintage(BaseRound, None, <<>>)
    /\ latest = ParseVintage(LatestRound, None, <<>>)
    /\ result = [status |-> "pending", vintage |-> None]
    /\ pc = "idle"

(***************************************************************************)
(* The state machine of one call of riksbanken_request, the server         *)
(* answering each request with any of Responses.                           *)
(***************************************************************************)
InitCall ==
    /\ CallInit
    /\ MergeIdle /\ SeriesIdle /\ TasksIdle /\ SweaIdle /\ ParseIdle /\ RemergeIdle

NextCall ==
    \/ Send
    \/ Exhausted
    \/ \E r \in Responses : Respond(r)
    \/ Wake

SpecCall == InitCall /\ [][NextCall]_vars

\* the same call where the coroutine is resumed whenever it can take a step:
\* the server answers every request and every sleep comes to its end
SpecCallFair == SpecCall /\ WF_vars(NextCall)

(***************************************************************************)
(* The state machine of one invocation of _fetch_series.                   *)
(***************************************************************************)
InitSeries ==
    /\ SeriesInit
    /\ MergeIdle /\ CallIdle /\ TasksIdle /\ SweaIdle /\ ParseIdle /\ RemergeIdle

NextSeries ==
    \/ FetchBase
    \/ FetchBaseFails
    \/ FetchRounds
    \/ FetchRoundsFails
    \/ FetchLatest
    \/ FetchLatestFails

SpecSeries == InitSeries /\ [][NextSeries]_vars

(***************************************************************************)
(* The state machine of the calls of riksbanken_request in flight, the     *)
(* event loop running any of them that is ready.                           *)
(***************************************************************************)
InitTasks ==
    /\ TasksInit
    /\ MergeIdle /\ CallIdle /\ SeriesIdle /\ SweaIdle /\ ParseIdle /\ RemergeIdle

NextTasks ==
    \E t \in Tasks :
       \/ TaskSend(t)
       \/ TaskExhausted(t)
       \/ \E r \in Responses : TaskRespond(t, r)
       \/ TaskWake(t)

SpecTasks == InitTasks /\ [][NextTasks]_vars

(***************************************************************************)
(* The state machine of one call of fetch_observations.                    *)
(***************************************************************************)
InitSwea ==
    /\ SweaInit
    /\ MergeIdle /\ SeriesIdle /\ TasksIdle /\ ParseIdle /\ RemergeIdle

NextSwea ==
    \/ SweaSend
    \/ \E r \in SweaResponses : SweaRespond(r)
    \/ SweaWake

SpecSwea == InitSwea /\ [][NextSwea]_vars

(***************************************************************************)
(* The state machine of one call of get_policy_data.                       *)
(***************************************************************************)
InitParse ==
    /\ ParseInit
    /\ MergeIdle /\ CallIdle /\ SeriesIdle /\ TasksIdle /\ SweaIdle /\ RemergeIdle

NextParse == GetPolicyData

SpecParse == InitParse /\ [][NextParse]_vars

(***************************************************************************)
(* The state machine of a merge applied twice: the vintage merge_realized  *)
(* returned is merged with the same latest vintage again, for each of the  *)
(* two variants of merge_realized.                                         *)
(***************************************************************************)
\* the values of the rows of latest, none of them a value of base
RemergeValues == LatestValues \ BaseValues

InitRemerge ==
    /\ \/ /\ pc = "fetched"
          /\ \E c \in CutoffStrings, rows \in SeqsUpTo(RawRows(BaseValues), MaxObs) :
                base = ParseVintage(BaseRound, c, rows)
          /\ \E c \in CutoffStrings, rows \in SeqsUpTo(RawRows(RemergeValues), MaxObs) :
                latest = ParseVintage(LatestRound, c, rows)
       \/ /\ pc = "fetched_flagged"
          /\ \E rows \in SeqsUpTo(FlaggedRows(BaseValues), MaxObs) :
                base = FlaggedVintage(BaseRound, rows)
          /\ \E rows \in SeqsUpTo(FlaggedRows(RemergeValues), MaxObs) :
                latest = FlaggedVintage(LatestRound, rows)
    /\ result = [status |-> "pending", vintage |-> None]
    /\ again = [status |-> "pending", vintage |-> None]
    /\ CallIdle /\ SeriesIdle /\ TasksIdle /\ SweaIdle /\ ParseIdle

\* merged = merge_realized(base, latest), then merge_realized(merged, latest),
\* with merge_realized of swemo_mcp; a merge that raises is not repeated
Remerge ==
    /\ pc = "fetched"
    /\ result' = merge_realized(base, latest)
    /\ again' = IF result'.status = "ok"
                THEN merge_realized(result'.vintage[1], latest)
                ELSE again
    /\ pc' = "remerged"
    /\ UNCHANGED <<base, latest>>
    /\ UNCHANGED <<callVars, seriesVars, taskVars, sweaVars, parseVars>>

\* the same with merge_realized of riksbank_mcp
RemergeFlagged ==
    /\ pc = "fetched_flagged"
    /\ result' = flagged_merge_realized(base, latest)
    /\ again' = flagged_merge_realized(result'.vintage[1], latest)
    /\ pc' = "remerged_flagged"
    /\ UNCHANGED <<base, latest>>
    /\ UNCHANGED <<callVars, seriesVars, taskVars, sweaVars, parseVars>>

NextRemerge == Remerge \/ RemergeFlagged

SpecRemerge == InitRemerge /\ [][NextRemerge]_vars

(***************************************************************************)
(* Vocabulary of the properties.                                           *)
(***************************************************************************)
Returned == pc = "merged" /\ result.status = "ok"

SelfReturned == pc = "selfmerged" /\ result.status = "ok"

\* the observations of the returned vintage
Out == result.vintage[1].observations

BaseObs == base.observations

LatestObs == latest.observations

Cut == base.metadata.forecast_cutoff_date

\* dt parses to a date strictly after base's forecast_cutoff_date
AfterCut(dt) == Cut # None /\ IsIsoDate(dt) /\ DateGt(FromIsoformat(dt), Cut)

\* the rows of latest that are historical at dt and lie after base's cutoff
RealizedAt(dt) ==
    {i \in 1..Len(LatestObs) :
        LatestObs[i].dt = dt /\ LatestObs[i].forecast = None /\ AfterCut(dt)}

Last(S) == CHOOSE i \in S : \A k \in S : k <= i

\* the rows of latest that are historical, at a date base does not have
TailSource ==
    {i \in 1..Len(LatestObs) :
        LatestObs[i].forecast = None /\ LatestObs[i].dt \notin BaseDates(base)}

\* C1: every base row with a forecast has, in the returned vintage, a row of
\* the same date, and every returned row of that date carries the base row's
\* forecast value.
C1_ForecastPreservation ==
    Returned =>
        \A i \in 1..Len(BaseObs) :
            BaseObs[i].forecast # None =>
                /\ \E j \in 1..Len(Out) : Out[j].dt = BaseObs[i].dt
                /\ \A j \in 1..Len(Out) :
                      Out[j].dt = BaseObs[i].dt => Out[j].forecast = BaseObs[i].forecast

\* a forecast row of base was filled with a realised value that differs from it
C1_Witness ==
    /\ Returned
    /\ \E j \in 1..Len(Out) :
          /\ Out[j].forecast # None
          /\ Out[j].observation # None
          /\ Out[j].observation # Out[j].forecast

\* C2: the returned observations contain no two rows with the same date,
\* repeated dates in base or latest included.
C2_NoDateDuplication ==
    Returned =>
        \A i, j \in 1..Len(Out) : i # j => Out[i].dt # Out[j].dt

\* C3: the returned observations are in ascending order of dt (str order),
\* and wherever two dates parse, in ascending calendar order.
C3_SortedByDate ==
    Returned =>
        \A i, j \in 1..Len(Out) :
            i < j =>
                /\ ~StrLt(Out[j].dt, Out[i].dt)
                /\ (IsIsoDate(Out[i].dt) /\ IsIsoDate(Out[j].dt)) =>
                      ~DateGt(FromIsoformat(Out[i].dt), FromIsoformat(Out[j].dt))

\* base lists its rows in descending order and the merge returns them
C3_Witness ==
    /\ Returned
    /\ Len(BaseObs) >= 2
    /\ StrLt(BaseObs[2].dt, BaseObs[1].dt)
    /\ IsIsoDate(BaseObs[1].dt)

\* C4: a forecast row of base at date d is returned with observation equal to
\* the value of latest's (last) historical row at d when there is one and d is
\* strictly after base's cutoff, and with observation null otherwise.
C4_RealizedFill ==
    Returned =>
        \A j \in 1..Len(Out) :
            Out[j].forecast # None =>
                IF RealizedAt(Out[j].dt) = {}
                THEN Out[j].observation = None
                ELSE Out[j].observation = Some(LatestObs[Last(RealizedAt(Out[j].dt))].value)

\* one forecast row is filled, and another is left null although latest has a
\* row (still a forecast there) for its date
C4_Witness ==
    /\ Returned
    /\ \E j \in 1..Len(Out) : Out[j].forecast # None /\ Out[j].observation # None
    /\ \E j \in 1..Len(Out), i \in 1..Len(LatestObs) :
          /\ Out[j].forecast # None
          /\ Out[j].observation = None
          /\ LatestObs[i].dt = Out[j].dt

\* C5: every base row without a forecast is returned with observation equal
\* to its own value, whatever latest holds for that date.
C5_HistoryReconcilesToItself ==
    Returned =>
        /\ \A i \in 1..Len(BaseObs) :
              BaseObs[i].forecast = None =>
                  \E j \in 1..Len(Out) :
                      /\ Out[j].dt = BaseObs[i].dt
                      /\ Out[j].value = BaseObs[i].value
                      /\ Out[j].forecast = None
                      /\ Out[j].observation = Some(BaseObs[i].value)
        /\ \A j \in 1..Len(Out) :
              (Out[j].dt \in BaseDates(base) /\ Out[j].forecast = None) =>
                  Out[j].observation = Some(Out[j].value)

\* a historical base row whose date latest reports with another value
C5_Witness ==
    /\ Returned
    /\ \E i \in 1..Len(BaseObs), k \in 1..Len(LatestObs) :
          /\ BaseObs[i].forecast = None
          /\ LatestObs[k].dt = BaseObs[i].dt
          /\ LatestObs[k].observation # None
          /\ LatestObs[k].value # BaseObs[i].value

\* C6: every returned row whose date base does not have has forecast null and
\* observation equal to its value, which is the value of a historical row of
\* latest at that date.
C6_AppendOnlyTail ==
    Returned =>
        \A j \in 1..Len(Out) :
            Out[j].dt \notin BaseDates(base) =>
                /\ Out[j].forecast = None
                /\ Out[j].observation = Some(Out[j].value)
                /\ \E i \in TailSource :
                      LatestObs[i].dt = Out[j].dt /\ LatestObs[i].value = Out[j].value

\* a row was appended next to the rows of a non-empty base
C6_Witness ==
    /\ Returned
    /\ BaseObs # <<>>
    /\ \E j \in 1..Len(Out) : Out[j].dt \notin BaseDates(base)

RealizedDates ==
    {LatestObs[i].dt : i \in {k \in 1..Len(LatestObs) : RealizedAt(LatestObs[k].dt) # {}}}

\* dt is on or before the maximum date of latest's realized set
UpToMaxRealized(dt) ==
    /\ IsIsoDate(dt)
    /\ \E r \in RealizedDates : ~DateGt(FromIsoformat(dt), FromIsoformat(r))

\* C8 as claimed: a returned row has a non-null observation exactly when its
\* date is on or before the maximum date of latest's realized set or it was
\* never a forecast.
C8_RealizedUpToMaxDate ==
    Returned =>
        \A j \in 1..Len(Out) :
            (Out[j].observation # None)
                <=> (UpToMaxRealized(Out[j].dt) \/ Out[j].forecast = None)

\* C8 amended: a returned row has a non-null observation exactly when its
\* date is a date of latest's realized set or it was never a forecast.
C8_RealizedAtRealizedDates ==
    Returned =>
        \A j \in 1..Len(Out) :
            (Out[j].observation # None)
                <=> (Out[j].dt \in RealizedDates \/ Out[j].forecast = None)

\* a forecast row is filled while an earlier forecast row stays null
C8_Witness ==
    /\ Returned
    /\ \E j, k \in 1..Len(Out) :
          /\ Out[j].forecast # None /\ Out[j].observation = None
          /\ Out[k].forecast # None /\ Out[k].observation # None
          /\ StrLt(Out[j].dt, Out[k].dt)

\* C9: merging a vintage with itself returns as many rows as it has, every
\* forecast row with its forecast unchanged, and a non-null observation only
\* on rows dated on or before the vintage's own cutoff.
C9_SelfMerge ==
    SelfReturned =>
        /\ Len(Out) = Len(BaseObs)
        /\ \A i \in 1..Len(BaseObs) :
              BaseObs[i].forecast # None =>
                  /\ \E j \in 1..Len(Out) : Out[j].dt = BaseObs[i].dt
                  /\ \A j \in 1..Len(Out) :
                        Out[j].dt = BaseObs[i].dt => Out[j].forecast = BaseObs[i].forecast
        /\ \A j \in 1..Len(Out) :
              Out[j].observation # None =>
                  /\ Cut # None
                  /\ IsIsoDate(Out[j].dt)
                  /\ ~DateGt(FromIsoformat(Out[j].dt), Cut)

\* a vintage with a historical and a forecast row was merged with itself
C9_Witness ==
    /\ SelfReturned
    /\ \E i, k \in 1..Len(BaseObs) :
          BaseObs[i].forecast # None /\ BaseObs[k].forecast = None

\* the returned rows equal to base row i in date, value and forecast
SameAsBase(i) ==
    {j \in 1..Len(Out) :
        /\ Out[j].dt = BaseObs[i].dt
        /\ Out[j].value = BaseObs[i].value
        /\ Out[j].forecast = BaseObs[i].forecast}

\* C10: the returned vintage has one row per base row, with the base row's
\* date and value, and besides them only the appended rows: its length is
\* the number of base rows plus the number of appended rows.
C10_EveryBaseRowKept ==
    Returned =>
        /\ Len(Out) = Len(BaseObs) + Cardinality(TailSource)
        /\ \A i \in 1..Len(BaseObs) :
              Cardinality(SameAsBase(i))
                  = Cardinality({k \in 1..Len(BaseObs) : BaseObs[k] = BaseObs[i]})

\* base has a historical and a forecast row, and a row was appended
C10_Witness ==
    /\ Returned
    /\ \E i, k \in 1..Len(BaseObs) :
          BaseObs[i].forecast # None /\ BaseObs[k].forecast = None
    /\ TailSource # {}

\* C11: the returned vintage carries base's metadata (policy round, cutoff),
\* never latest's.
C11_MetadataUnchanged ==
    Returned => result.vintage[1].metadata = base.metadata

\* the merge changed the observations, and latest's cutoff differs from base's
C11_Witness ==
    /\ Returned
    /\ Out # BaseObs
    /\ latest.metadata.forecast_cutoff_date # base.metadata.forecast_cutoff_date

\* C12: a call of merge_realized, returning or raising, leaves base and
\* latest as they were.
C12_InputsNotMutated ==
    [][(pc = "fetched" /\ pc' # "fetched") => (base' = base /\ latest' = latest)]_vars

\* a call returned observations that differ from base's
C12_Witness ==
    /\ Returned
    /\ Out # BaseObs
    /\ LatestObs # <<>>

\* C13: with base's forecast_cutoff_date missing, the call produces no merged
\* vintage, whatever latest holds.
C13_MissingCutoffFails ==
    (pc = "merged" /\ Cut = None) => result.status # "ok"

\* C14: with base's metadata valid, a row whose dt does not parse does not
\* abort the merge, and the returned vintage is built from well-formed rows.
C14_MalformedRowSkipped ==
    (pc = "merged" /\ Cut # None) =>
        /\ result.status = "ok"
        /\ \A j \in 1..Len(Out) : IsIsoDate(Out[j].dt)

(***************************************************************************)
(* Properties of riksbanken_request (SpecCall).                            *)
(***************************************************************************)
RECURSIVE SumSeq(_)
SumSeq(q) == IF q = <<>> THEN 0 ELSE Head(q) + SumSeq(Tail(q))

\* the first n responses were all HTTP 429
All429(n) == \A i \in 1..n : responses[i].status_code = 429

\* the call has ended
Ended == at \in {"returned", "raised"}

C16_NotFoundIsEmpty ==
    \A i \in 1..Len(responses) :
        responses[i].status_code = 404 =>
            /\ i = Len(responses)
            /\ at = "returned"
            /\ outcome.kind = "empty"

\* a 404 after two rate-limited attempts
C16_Witness ==
    /\ Len(responses) = 3
    /\ responses[1].status_code = 429
    /\ responses[3].status_code = 404
    /\ at = "returned"

\* C17: an error status other than 404 and 429 ends the call at once with
\* that error: no sleep follows it and no further request is sent, however
\* many attempts remain.
C17_OtherErrorsNotRetried ==
    \A i \in 1..Len(responses) :
        (/\ IsErrorStatus(responses[i].status_code)
         /\ responses[i].status_code \notin {404, 429}) =>
            /\ i = Len(responses)
            /\ at = "raised"
            /\ outcome = [kind |-> "HTTPStatusError",
                          status_code |-> responses[i].status_code]
            /\ Len(sleeps) = i - 1

\* a 500 on the first attempt of a call with more attempts left
C17_Witness ==
    /\ at = "raised"
    /\ retries >= 3
    /\ Len(responses) = 1
    /\ responses[1].status_code = 500

CallsOf(kind) == {i \in 1..Len(calls) : calls[i].call = kind}

\* C19: without include_realized the invocation returns what the base fetch
\* delivered, after that one fetch: no catalogue request, no second fetch,
\* no merge.
C19_NoRealizedReturnsBase ==
    ~req.include_realized =>
        /\ CallsOf("policy_rounds") = {}
        /\ CallsOf("merge_realized") = {}
        /\ Len(calls) <= 1
        /\ step = "returned" =>
              /\ calls = <<[call |-> "fetch", policy_round |-> req.policy_round]>>
              /\ ret = Returns(answer)

\* a request for round 2024:1 without include_realized returned its vintage
\* although the catalogue lists the later round 2024:2
C19_Witness ==
    /\ step = "returned"
    /\ ~req.include_realized
    /\ req.policy_round = Id2024_1
    /\ answer = <<VintageA>>
    /\ \E i \in 1..Len(catalogue) : catalogue[i] = Id2024_2

\* the well-formed identifiers of the catalogue
ValidIds == {catalogue[i] : i \in {k \in 1..Len(catalogue) : IsRoundId(catalogue[k])}}

\* identifier a denotes a later round than b: year first, then iteration
LaterRound(a, b) ==
    \/ PolicyRound(a).year > PolicyRound(b).year
    \/ /\ PolicyRound(a).year = PolicyRound(b).year
       /\ PolicyRound(a).iteration > PolicyRound(b).iteration

\* the catalogue has been delivered to the invocation
CatalogueRead ==
    /\ CallsOf("policy_rounds") # {}
    /\ ~(step = "raised" /\ calls[Len(calls)].call = "policy_rounds")

\* C20: once the catalogue is read and lists a round, the latest round is
\* one of its identifiers and no identifier of the catalogue, in whatever
\* order it is listed, denotes a later (year, iteration); the latest vintage
\* is fetched for that round.
C20_LatestRoundIsMax ==
    /\ (CatalogueRead /\ ValidIds # {}) => latest_round # None
    /\ latest_round # None =>
          /\ latest_round \in ValidIds
          /\ \A q \in ValidIds : ~LaterRound(q, latest_round)
          /\ \A i \in CallsOf("fetch") : i > 1 => calls[i].policy_round = latest_round

\* the catalogue 2024:1, 2024:2, 2023:4 resolves to 2024:2
C20_Witness ==
    /\ catalogue = <<Id2024_1, Id2024_2, Id2023_4>>
    /\ latest_round = Id2024_2
    /\ step = "returned"

\* a latest vintage was fetched: the orchestrator asked _fetcher a second time
LatestFetched == Cardinality(CallsOf("fetch")) = 2

\* base and latest both delivered a vintage, and merging them succeeded
MergedInto ==
    /\ latest_answer # None
    /\ answer # <<>>
    /\ latest_answer[1] # <<>>
    /\ merge_realized(answer[1], latest_answer[1][1]).status = "ok"

EndedWithoutFailure == step \in {"returned", "raised"} /\ failure = None

\* C22: with include_realized set, when the base fetch or the latest fetch
\* delivers no vintage, or the catalogue holds no round, merge_realized is
\* not called and _fetch_series returns the base response as it was fetched,
\* raising nothing.
C22_EmptyVintagesSkipMerge ==
    (/\ EndedWithoutFailure
     /\ req.include_realized
     /\ \/ answer = <<>>
        \/ RoundsOf(catalogue) = <<>>
        \/ latest_answer = Some(<<>>))
    => /\ step = "returned"
       /\ ret = Returns(answer)
       /\ CallsOf("merge_realized") = {}

\* base came back with a vintage, the latest round with none
C22_Witness ==
    /\ step = "returned"
    /\ req.include_realized
    /\ answer = <<VintageA>>
    /\ latest_answer = Some(<<>>)
    /\ ret = Returns(<<VintageA>>)

\* C23: a request without policy_round gets every vintage of the series and
\* no enrichment, also with include_realized set: the response returned is
\* the one the base fetch delivered, no vintage of it replaced by a merge.
C23_OmittedRoundSkipsEnrichment ==
    (step = "returned" /\ req.policy_round = None) =>
        /\ ret = Returns(answer)
        /\ CallsOf("merge_realized") = {}

\* C24: when the base fetch, the catalogue fetch or the latest fetch raises,
\* _fetch_series ends raising that very exception and hands back no response,
\* not even the base response fetched before a later fetch failed.
C24_FetchFailurePropagates ==
    failure # None =>
        /\ step = "raised"
        /\ ret.kind = "raised"
        /\ ret.error = failure[1]
        /\ ret.vintages = <<>>

\* the latest fetch raised after the base fetch had delivered a vintage
C24_Witness ==
    /\ failure = Some("HTTPStatusError")
    /\ answer = <<VintageA>>
    /\ Len(calls) = 3
    /\ step = "raised"

\* the call logged at position i of calls' starts in the current state
StartsInOrder(i) ==
    LET c == calls'[i] IN
    CASE c.call = "fetch" ->
            \/ i = 1 /\ step = "start" /\ c.policy_round = req.policy_round
            \/ i = 3 /\ step = "rounds_fetched" /\ c.policy_round = latest_round
      [] c.call = "policy_rounds" ->
            i = 2 /\ step = "base_fetched"
      [] c.call = "merge_realized" ->
            /\ i = 4
            /\ calls'[3].call = "fetch"
            /\ latest_answer' # None
      [] OTHER -> FALSE

\* C28: one invocation of _fetch_series makes its calls one after the other
\* in the order base fetch, catalogue fetch, latest fetch, each at most once:
\* the catalogue is read only once the base fetch has returned, the latest
\* vintage fetched only once the catalogue has returned, and merge_realized
\* runs only once the latest fetch has returned.
C28_FetchesInOrder ==
    [][/\ Len(calls') >= Len(calls)
       /\ SubSeq(calls', 1, Len(calls)) = calls
       /\ \A i \in (Len(calls) + 1)..Len(calls') : StartsInOrder(i)]_vars

\* all three fetches were made and the merge ran
C28_Witness ==
    /\ step = "returned"
    /\ Len(calls) = 4
    /\ calls[2].call = "policy_rounds"
    /\ calls[4].call = "merge_realized"

(***************************************************************************)
(* Properties of calls in flight together (SpecTasks).                     *)
(***************************************************************************)
\* what a call that received the response r as its last one ends in
ClassOf(r) ==
    IF r.status_code \in 200..299
    THEN [kind |-> IF r.content THEN "json" ELSE "empty", status_code |-> r.status_code]
    ELSE IF r.status_code = 404
    THEN [kind |-> "empty", status_code |-> 404]
    ELSE [kind |-> "HTTPStatusError", status_code |-> r.status_code]

\* attempt counter, backoff delays and outcome of the call c are those its
\* own retries and its own responses determine
OwnResponsesOnly(c) ==
    LET retried == {i \in 1..Len(c.responses) :
                       c.responses[i].status_code = 429 /\ i < c.retries} IN
    /\ Len(c.sleeps) = Cardinality(retried)
    /\ \A i \in 1..Len(c.sleeps) : c.sleeps[i] = 2 ^ (i - 1)
    /\ c.attempt = IF c.at = "sleeping" THEN Len(c.sleeps) - 1 ELSE Len(c.sleeps)
    /\ Len(c.responses) = IF c.at \in {"loop", "awaiting"}
                          THEN c.attempt ELSE IF c.retries = 0 THEN 0 ELSE c.attempt + 1
    /\ c.outcome =
          IF c.at \notin {"returned", "raised"} THEN NoOutcome
          ELSE IF c.responses = <<>> THEN [kind |-> "RuntimeError", status_code |-> 0]
          ELSE ClassOf(c.responses[Len(c.responses)])

\* the call t can take its next step whatever the other calls are doing
NotHeldUp(t) ==
    /\ (tasks[t].at = "loop" /\ tasks[t].attempt < tasks[t].retries) => ENABLED TaskSend(t)
    /\ tasks[t].at = "awaiting" => \A r \in Responses : ENABLED TaskRespond(t, r)
    /\ tasks[t].at = "sleeping" => ENABLED TaskWake(t)

\* C25: of the calls of riksbanken_request in flight each keeps an attempt
\* counter, backoff delays and an outcome that depend on its own retries and
\* responses only; a step of one call changes nothing of another, and a call
\* asleep in its backoff never holds up the requests or the end of another.
C25_CallsIndependent ==
    /\ [](\A t \in Tasks : OwnResponsesOnly(tasks[t]) /\ NotHeldUp(t))
    /\ [][\A t \in Tasks : tasks'[t] # tasks[t] =>
             \A u \in Tasks \ {t} : tasks'[u] = tasks[u]]_vars

\* call b got its response and returned while call a is asleep in its backoff
C25_Witness ==
    /\ tasks # <<>>
    /\ tasks["a"].at = "sleeping"
    /\ tasks["b"].at = "returned"
    /\ Len(tasks["a"].responses) = 1
    /\ Len(tasks["b"].responses) = 2

(***************************************************************************)
(* Properties of fetch_observations (SpecSwea).                            *)
(***************************************************************************)
\* the SWEA endpoint said that it has no data: its last response is an empty
\* body, an empty list, or 404
SweaNoData ==
    /\ responses # <<>>
    /\ LET r == responses[Len(responses)] IN
       \/ r.status_code = 404
       \/ r.status_code = 200 /\ (~r.content \/ r.items = 0)

\* C26: when the SWEA endpoint reports no data for the interval, by an empty
\* body or by the status 404, fetch_observations returns the empty list and
\* raises nothing.
C26_SweaNoDataIsEmptyList ==
    (at \in {"returned", "raised"} /\ SweaNoData) =>
        /\ observations.kind = "list"
        /\ observations.items = 0

(***************************************************************************)
(* Properties of get_policy_data (SpecParse).                              *)
(***************************************************************************)
\* the cutoff string and the date string both parse and the date is after
\* the cutoff
StrictlyAfter(cutoff_str, dt_str) ==
    /\ cutoff_str # None
    /\ IsIsoDate(cutoff_str)
    /\ IsIsoDate(dt_str)
    /\ DateGt(FromIsoformat(dt_str), FromIsoformat(cutoff_str))

\* the raw vintages get_policy_data was given, and the rows it made of them
ParsedRows ==
    {<<i, j>> \in (1..1) \X (1..MaxObs) :
        /\ response # None
        /\ i <= Len(payload[1])
        /\ j <= Len(payload[1][i].rows)}

\* C27: get_policy_data makes a row a forecast if and only if the cutoff of its
\* vintage and its own date both parse and the date is strictly after the
\* cutoff, a row dated on the cutoff being historical; a forecast row carries
\* forecast = value and no observation, every other row observation = value
\* and no forecast, so that exactly one of the two is set on every row.
C27_CutoffPartition ==
    \A p \in ParsedRows :
        LET raw == payload[1][p[1]]
            row == raw.rows[p[2]]
            out == response[1].vintages[p[1]].observations[p[2]]
        IN  /\ out.dt = row.dt
            /\ (out.forecast # None) <=> StrictlyAfter(raw.cutoff, row.dt)
            /\ (out.forecast = None) <=> (out.observation # None)
            /\ out.forecast # None => out.forecast = Some(row.value)
            /\ out.observation # None => out.observation = Some(row.value)
            /\ row.dt = raw.cutoff => out.forecast = None

\* a vintage with a row dated on its cutoff, parsed as historical, and a later
\* row, parsed as a forecast
C27_Witness ==
    /\ response # None
    /\ Len(response[1].vintages) = 1
    /\ payload[1][1].cutoff = Dt0630
    /\ LET obs == response[1].vintages[1].observations IN
       /\ Len(obs) = 2
       /\ obs[1].dt = Dt0630 /\ obs[1].observation = Some(1) /\ obs[1].forecast = None
       /\ obs[2].dt = Dt0930 /\ obs[2].forecast = Some(2) /\ obs[2].observation = None

(***************************************************************************)
(* Termination of riksbanken_request (SpecCallFair).                       *)
(***************************************************************************)
\* the call has ended in one of the classified ways: a body or {} returned,
\* or the HTTP error of its last response raised
Classified ==
    /\ responses # <<>>
    /\ LET r == responses[Len(responses)] IN
       \/ /\ at = "returned"
          /\ outcome.kind \in {"json", "empty"}
          /\ r.status_code \in 200..299 \/ r.status_code = 404
       \/ /\ at = "raised"
          /\ outcome = [kind |-> "HTTPStatusError", status_code |-> r.status_code]
          /\ r.status_code \notin 200..299

Remerged == pc \in {"remerged", "remerged_flagged"} /\ result.status = "ok"

\* C30: merging the vintage merge_realized(base, latest) returned with the
\* same latest again succeeds and returns that very vintage: the same rows in
\* the same order with the same forecast and realised values, none appended.
C30_RemergeIdempotent ==
    Remerged =>
        /\ again.status = "ok"
        /\ again.vintage[1].metadata = result.vintage[1].metadata
        /\ again.vintage[1].observations = result.vintage[1].observations

\* the first merge filled the realised value of a forecast row and appended a
\* row of latest
C30_Witness ==
    /\ pc = "remerged"
    /\ result.status = "ok"
    /\ Len(Out) > Len(BaseObs)
    /\ \E i \in 1..Len(Out) : Out[i].forecast # None /\ Out[i].observation # None

====
